---- MODULE Spec2Model ----
(***************************************************************************)
(* QueryCraft: the SQL engine facade of src/app/lib/sqlEngine.ts           *)
(* (module-level handles SQL and db, initDatabase, executeQuery,           *)
(* getSchema, exportDatabase, importDatabase, clearDatabase,               *)
(* loadSampleData) on top of the sql.js Database object, and the           *)
(* connection graph of DraggableTableConnectionGraph.tsx (getConnections,  *)
(* getInitialPositions and the layout effect).                             *)
(*                                                                         *)
(* The async functions are cut at their awaits: every action is one        *)
(* synchronous run of JavaScript between two awaits, so the interleavings  *)
(* of the model are the interleavings the event loop can produce.          *)
(***************************************************************************)
EXTENDS Integers, Sequences, FiniteSets, TLC

(***************************************************************************)
(* Bounds                                                                  *)
(***************************************************************************)
MaxRows == 3
\* rows a user table may hold

\* async calls that may be in flight together
Callers == {1, 2}

MaxTables == 2
\* tables of a schema handed to the relationship inference

MaxNodes == 9
\* tables of a schema handed to the grid layout

MaxDrags == 3
\* drag events while the graph is mounted

(***************************************************************************)
(* Text: the characters a statement begins with                            *)
(***************************************************************************)
LowerLetters == <<"a","b","c","d","e","f","g","h","i","j","k","l","m",
                  "n","o","p","q","r","s","t","u","v","w","x","y","z">>
UpperLetters == <<"A","B","C","D","E","F","G","H","I","J","K","L","M",
                  "N","O","P","Q","R","S","T","U","V","W","X","Y","Z">>
WhiteSpace == {" ", "\n", "\t"}

IsLetter(ch) == \E i \in 1..26 : ch = LowerLetters[i] \/ ch = UpperLetters[i]

\* String.prototype.toUpperCase, one character
UpperChar(ch) ==
    IF \E i \in 1..26 : ch = LowerLetters[i]
    THEN UpperLetters[CHOOSE i \in 1..26 : ch = LowerLetters[i]]
    ELSE ch

\* String.prototype.toUpperCase
ToUpperCase(s) == [i \in 1..Len(s) |-> UpperChar(s[i])]

\* String.prototype.trim, at the front of the text
RECURSIVE Trim(_)
Trim(s) ==
    IF s # <<>> /\ Head(s) \in WhiteSpace THEN Trim(Tail(s)) ELSE s

\* String.prototype.startsWith
StartsWith(s, prefix) ==
    /\ Len(s) >= Len(prefix)
    /\ SubSeq(s, 1, Len(prefix)) = prefix

SELECT == <<"S","E","L","E","C","T">>

\* the test without toUpperCase()
IsSelectPrefixCaseSensitive(text) == StartsWith(Trim(text), SELECT)

\* executeQuery's test: trimmedSql.toUpperCase().startsWith('SELECT')
IsSelectPrefix(text) == StartsWith(ToUpperCase(Trim(text)), SELECT)

\* the leading word of a text: its longest prefix of letters
RECURSIVE LeadingWord(_)
LeadingWord(s) ==
    IF s # <<>> /\ IsLetter(Head(s))
    THEN <<Head(s)>> \o LeadingWord(Tail(s))
    ELSE <<>>

\* the SQL tokenizer skips white space and "--" comments before a statement
RECURSIVE SkipLine(_)
SkipLine(s) ==
    IF s = <<>> THEN s
    ELSE IF Head(s) = "\n" THEN Tail(s) ELSE SkipLine(Tail(s))

RECURSIVE SkipBlank(_)
SkipBlank(s) ==
    IF s = <<>> THEN s
    ELSE IF Head(s) \in WhiteSpace THEN SkipBlank(Tail(s))
    ELSE IF StartsWith(s, <<"-","-">>) THEN SkipBlank(SkipLine(s))
    ELSE s

Keywords == {"SELECT", "INSERT", "UPDATE", "DELETE", "CREATE", "DROP"}

KeywordChars(k) ==
    CASE k = "SELECT" -> SELECT
      [] k = "INSERT" -> <<"I","N","S","E","R","T">>
      [] k = "UPDATE" -> <<"U","P","D","A","T","E">>
      [] k = "DELETE" -> <<"D","E","L","E","T","E">>
      [] k = "CREATE" -> <<"C","R","E","A","T","E">>
      [] k = "DROP"   -> <<"D","R","O","P">>

\* the keyword the engine reads at the start of a text ("BAD": not a statement)
EngineKeyword(text) ==
    LET w == ToUpperCase(LeadingWord(SkipBlank(text)))
    IN  IF \E k \in Keywords : KeywordChars(k) = w
        THEN CHOOSE k \in Keywords : KeywordChars(k) = w
        ELSE "BAD"

(***************************************************************************)
(* The catalog: table names, their lexical classes and declared columns    *)
(***************************************************************************)
SeedNames == {"users", "categories", "products", "orders", "order_items"}
UserNames == {"t", "123", "order", "sqlitex", "+1"}
\* the table the engine keeps for AUTOINCREMENT keys
InternalNames == {"sqlite_sequence"}
Names == SeedNames \cup UserNames \cup InternalNames

\* ORDER BY name (BINARY collation) over the names of the model
NameOrder == <<"+1", "123", "categories", "order", "order_items", "orders",
               "products", "sqlite_sequence", "sqlitex", "t", "users">>

\* lexical class of a name spliced unquoted into SQL text
IsInteger(name) == name = "123"
IsSignedInteger(name) == name = "+1"
IsReservedWord(name) == name = "order"
IsIdentifier(name) ==
    ~IsInteger(name) /\ ~IsSignedInteger(name) /\ ~IsReservedWord(name)

\* the LIKE operator on ASCII text: % is any run of characters, _ is any one
\* character, letters match without regard to case
RECURSIVE Like(_, _)
Like(text, pattern) ==
    IF pattern = "" THEN text = ""
    ELSE LET p == SubSeq(pattern, 1, 1)
             rest == SubSeq(pattern, 2, Len(pattern))
             tail == SubSeq(text, 2, Len(text))
         IN  IF p = "%"
             THEN Like(text, rest) \/ (text # "" /\ Like(tail, pattern))
             ELSE /\ text # ""
                  /\ p = "_" \/ UpperChar(p) = UpperChar(SubSeq(text, 1, 1))
                  /\ Like(tail, rest)

Col(name, type, notnull, pk) ==
    [name |-> name, type |-> type, notnull |-> notnull, pk |-> pk]

\* declared columns, as PRAGMA table_info reports them (name, type, notnull, pk)
DeclaredColumns(name) ==
    CASE name = "users" ->
           << Col("id", "INTEGER", FALSE, TRUE),
              Col("username", "TEXT", TRUE, FALSE),
              Col("email", "TEXT", TRUE, FALSE),
              Col("full_name", "TEXT", FALSE, FALSE),
              Col("created_at", "DATETIME", FALSE, FALSE) >>
      [] name = "categories" ->
           << Col("id", "INTEGER", FALSE, TRUE),
              Col("name", "TEXT", TRUE, FALSE),
              Col("description", "TEXT", FALSE, FALSE) >>
      [] name = "products" ->
           << Col("id", "INTEGER", FALSE, TRUE),
              Col("name", "TEXT", TRUE, FALSE),
              Col("description", "TEXT", FALSE, FALSE),
              Col("price", "REAL", TRUE, FALSE),
              Col("category_id", "INTEGER", FALSE, FALSE),
              Col("stock", "INTEGER", FALSE, FALSE),
              Col("created_at", "DATETIME", FALSE, FALSE) >>
      [] name = "orders" ->
           << Col("id", "INTEGER", FALSE, TRUE),
              Col("user_id", "INTEGER", TRUE, FALSE),
              Col("total_amount", "REAL", TRUE, FALSE),
              Col("status", "TEXT", FALSE, FALSE),
              Col("order_date", "DATETIME", FALSE, FALSE) >>
      [] name = "order_items" ->
           << Col("id", "INTEGER", FALSE, TRUE),
              Col("order_id", "INTEGER", TRUE, FALSE),
              Col("product_id", "INTEGER", TRUE, FALSE),
              Col("quantity", "INTEGER", TRUE, FALSE),
              Col("price", "REAL", TRUE, FALSE) >>
      [] name = "sqlite_sequence" ->
           << Col("name", "", FALSE, FALSE), Col("seq", "", FALSE, FALSE) >>
      [] OTHER -> << Col("x", "INTEGER", FALSE, FALSE) >>

\* the tables declared with INTEGER PRIMARY KEY AUTOINCREMENT
Autoincrement(name) == name \in SeedNames

ColumnNames(name) ==
    [i \in 1..Len(DeclaredColumns(name)) |-> DeclaredColumns(name)[i].name]

(***************************************************************************)
(* The embedded engine: one Database object                                *)
(***************************************************************************)
NoTable == [exists |-> FALSE, rows |-> 0]

\* new SQL.Database(): no table, no change counted
EmptyDatabase ==
    [corrupt |-> FALSE, tables |-> [n \in Names |-> NoTable],
     changes |-> 0]

\* a Database object opened on bytes that are not a database file
CorruptDatabase == [EmptyDatabase EXCEPT !.corrupt = TRUE]

MsgSyntax == "syntax error"
MsgNoTable == "no such table"
MsgExists == "table already exists"
MsgNotADb == "file is not a database"
EngineMessages == {MsgSyntax, MsgNoTable, MsgExists, MsgNotADb}

\* one parsed statement of a text
Unit(kw, what, tbl, n) == [kw |-> kw, what |-> what, tbl |-> tbl, n |-> n]

Failed(c, msg) == [ok |-> FALSE, c |-> c, msg |-> msg, rs |-> <<>>]
Done(c, rs) == [ok |-> TRUE, c |-> c, msg |-> "", rs |-> rs]

ResultSet(columns, values) == [columns |-> columns, values |-> values]

\* the engine runs one statement on database c: the database afterwards, the
\* error it raises, and the result set when the statement returned a row
RunUnit(c, u) ==
    LET T == c.tables[u.tbl]
        put(rows) == [c EXCEPT !.tables[u.tbl] = [exists |-> TRUE, rows |-> rows]]
    IN
    IF u.kw = "BAD" THEN Failed(c, MsgSyntax)
    ELSE IF u.kw = "SELECT" /\ u.what = "lit"
    THEN Done(c, << ResultSet(<<"1">>, << <<1>> >>) >>)
    ELSE IF c.corrupt THEN Failed(c, MsgNotADb)
    ELSE IF u.kw = "CREATE"
    THEN IF T.exists THEN Failed(c, MsgExists)
         ELSE IF Autoincrement(u.tbl)
              \* the first AUTOINCREMENT table brings sqlite_sequence along
              THEN Done([put(0) EXCEPT !.tables["sqlite_sequence"].exists = TRUE],
                        <<>>)
              ELSE Done(put(0), <<>>)
    ELSE IF ~T.exists
    THEN IF u.kw = "DROP" /\ u.what = "ifexists"
         THEN Done(c, <<>>)
         ELSE Failed(c, MsgNoTable)
    ELSE CASE u.kw = "SELECT" /\ u.what = "count" ->
                Done(c, << ResultSet(<<"COUNT(*)">>, << <<T.rows>> >>) >>)
           [] u.kw = "SELECT" /\ u.what = "star" ->
                \* a result set exists only once the statement steps to a row
                IF T.rows = 0 THEN Done(c, <<>>)
                ELSE Done(c, << ResultSet(ColumnNames(u.tbl),
                        [i \in 1..T.rows |->
                           [j \in 1..Len(ColumnNames(u.tbl)) |-> i]]) >>)
           [] u.kw = "SELECT" /\ u.what = "where0" -> Done(c, <<>>)
           [] u.kw = "INSERT" ->
                Done([put(T.rows + u.n) EXCEPT !.changes = u.n], <<>>)
           [] u.kw = "UPDATE" -> Done([c EXCEPT !.changes = T.rows], <<>>)
           [] u.kw = "DELETE" -> Done([put(0) EXCEPT !.changes = T.rows], <<>>)
           [] u.kw = "DROP" ->
                Done([c EXCEPT !.tables[u.tbl] = NoTable], <<>>)

\* Database.exec / Database.run on a text of several statements: they run in
\* order, each one committed before the next one is prepared
RECURSIVE RunScript(_, _)
RunScript(c, units) ==
    IF units = <<>> THEN Done(c, <<>>)
    ELSE LET r == RunUnit(c, Head(units))
         IN  IF ~r.ok THEN r
             ELSE LET rest == RunScript(r.c, Tail(units))
                  IN  [rest EXCEPT !.rs = r.rs \o @]

\* Database.getRowsModified(): rows changed by the last INSERT/UPDATE/DELETE
getRowsModified(c) == c.changes

\* the sample data of loadSampleData
SeedRows(name) ==
    CASE name = "users" -> 5
      [] name = "categories" -> 5
      [] name = "products" -> 10
      [] name = "orders" -> 5
      [] name = "order_items" -> 10

sampleSQL ==
    << Unit("CREATE", "", "users", 0), Unit("CREATE", "", "categories", 0),
       Unit("CREATE", "", "products", 0), Unit("CREATE", "", "orders", 0),
       Unit("CREATE", "", "order_items", 0),
       Unit("INSERT", "", "users", SeedRows("users")),
       Unit("INSERT", "", "categories", SeedRows("categories")),
       Unit("INSERT", "", "products", SeedRows("products")),
       Unit("INSERT", "", "orders", SeedRows("orders")),
       Unit("INSERT", "", "order_items", SeedRows("order_items")) >>

\* a seed script that creates the tables and inserts no row
loadSampleDataTablesOnly(c) == RunScript(c, SubSeq(sampleSQL, 1, 5)).c

\* loadSampleData: db.run(sampleSQL), an error is logged and swallowed
loadSampleData(c) == RunScript(c, sampleSQL).c

(***************************************************************************)
(* Snapshots: Database.export() and new SQL.Database(data)                 *)
(***************************************************************************)
NoTables == [n \in Names |-> NoTable]
Bytes(kind, tables) == [kind |-> kind, tables |-> tables]

\* no snapshot (exportDatabase returned null, or nothing exported yet)
NullBytes == Bytes("null", NoTables)
\* bytes that are not a database file
Malformed == Bytes("malformed", NoTables)

\* Database.export(): the bytes of the database file hold the tables and rows,
\* not the connection's change counter
Serialize(c) ==
    IF c.corrupt THEN Malformed ELSE Bytes("valid", c.tables)

\* the Database object that new SQL.Database(data) opens on the bytes
Deserialize(data) ==
    IF data.kind = "valid"
    THEN [corrupt |-> FALSE, tables |-> data.tables, changes |-> 0]
    ELSE CorruptDatabase

(***************************************************************************)
(* getSchema and clearDatabase, as functions of the database               *)
(***************************************************************************)
\* the rows of sqlite_master with type = 'table', ORDER BY name
CatalogOf(c) ==
    LET RECURSIVE pick(_)
        pick(i) == IF i > Len(NameOrder) THEN <<>>
                   ELSE IF c.tables[NameOrder[i]].exists
                        THEN <<NameOrder[i]>> \o pick(i + 1)
                        ELSE pick(i + 1)
    IN  pick(1)

\* SELECT name FROM sqlite_master
\* WHERE type='table' AND name NOT LIKE 'sqlite_%' ORDER BY name
TableNamesOf(c) ==
    SelectSeq(CatalogOf(c), LAMBDA name : ~Like(name, "sqlite_%"))

\* PRAGMA table_info(${tableName}) parses when the bare name is a name or a
\* number, with or without a sign
PragmaParses(name) ==
    IsIdentifier(name) \/ IsInteger(name) \/ IsSignedInteger(name)

\* the table the pragma looks up: a name or a number stands for itself, of
\* "+" number the parser keeps the number
PragmaArgument(name) ==
    IF IsSignedInteger(name) THEN SubSeq(name, 2, Len(name)) ELSE name

\* the rows of PRAGMA table_info: one per declared column, none when the
\* database has no table of that name (not an error)
PragmaTableInfo(c, name) ==
    LET arg == PragmaArgument(name)
    IN  IF arg \in Names /\ c.tables[arg].exists
        THEN DeclaredColumns(arg)
        ELSE <<>>

\* DROP TABLE IF EXISTS ${table.name} parses when the bare name is a name
DropParses(name) == IsIdentifier(name)

SchemaTable(name, columns) == [name |-> name, columns |-> columns]

\* getSchema(): [] when db is null, [] when a query throws, else one entry
\* per listed table whose pragma returned rows
getSchema(handle, c) ==
    IF handle = 0 THEN <<>>
    ELSE IF c.corrupt THEN <<>>
    ELSE LET names == TableNamesOf(c)
             listed == SelectSeq(names,
                         LAMBDA name : PragmaTableInfo(c, name) # <<>>)
         IN  IF \E i \in 1..Len(names) : ~PragmaParses(names[i])
             THEN <<>>
             ELSE [i \in 1..Len(listed) |->
                     SchemaTable(listed[i], PragmaTableInfo(c, listed[i]))]

\* a loop that stops at the first drop that fails
RECURSIVE DropAllAborting(_, _, _)
DropAllAborting(c, tables, logged) ==
    IF tables = <<>> THEN [c |-> c, logged |-> logged]
    ELSE LET name == Head(tables).name
             r == IF DropParses(name)
                  THEN RunUnit(c, Unit("DROP", "ifexists", name, 0))
                  ELSE Failed(c, MsgSyntax)
         IN  IF r.ok THEN DropAllAborting(r.c, Tail(tables), logged)
             ELSE [c |-> r.c, logged |-> Append(logged, name)]

\* clearDatabase's loop over the reflected tables: the database after the
\* drops and the names whose drop was logged as failed
RECURSIVE DropAll(_, _, _)
DropAll(c, tables, logged) ==
    IF tables = <<>> THEN [c |-> c, logged |-> logged]
    ELSE LET name == Head(tables).name
             r == IF DropParses(name)
                  THEN RunUnit(c, Unit("DROP", "ifexists", name, 0))
                  ELSE Failed(c, MsgSyntax)
         IN  DropAll(r.c, Tail(tables),
                     IF r.ok THEN logged ELSE Append(logged, name))

(***************************************************************************)
(* Statement texts offered to executeQuery                                 *)
(***************************************************************************)
\* a statement text: the characters it begins with (sql) and the statements
\* the engine parses from the whole text (units)
Statement(sql, units) == [sql |-> sql, units |-> units]
NoStatement == Statement(<<>>, <<>>)

SelectLower == <<" ", " ", "s", "e", "l", "e", "c", "t">>
Selected == <<"s", "e", "l", "e", "c", "t", "e", "d">>
CommentSelect == <<"-", "-", "q", "\n", "S", "E", "L", "E", "C", "T">>
InsertLower == <<"\n", "i", "n", "s", "e", "r", "t">>

Literal == Unit("SELECT", "lit", "t", 0)
InsertOne == Unit("INSERT", "", "t", 1)
Bad == Unit("BAD", "", "t", 0)

Statements ==
    { Statement(SELECT, <<Literal>>),
      Statement(SelectLower, <<Literal>>),
      Statement(CommentSelect, <<Literal>>),
      Statement(Selected, <<Bad>>),
      Statement(SELECT, << Unit("SELECT", "star", "t", 0) >>),
      Statement(SELECT, << Unit("SELECT", "where0", "t", 0) >>),
      Statement(SELECT, << Unit("SELECT", "count", "products", 0) >>),
      Statement(SELECT, << Literal, InsertOne >>),
      Statement(KeywordChars("INSERT"), <<InsertOne>>),
      Statement(KeywordChars("INSERT"), << Unit("INSERT", "", "t", 3) >>),
      Statement(InsertLower, <<InsertOne>>),
      Statement(KeywordChars("INSERT"), << InsertOne, Bad >>),
      Statement(KeywordChars("UPDATE"), << Unit("UPDATE", "", "t", 0) >>),
      Statement(KeywordChars("DELETE"), << Unit("DELETE", "", "t", 0) >>),
      Statement(KeywordChars("CREATE"), << Unit("CREATE", "", "t", 0) >>),
      Statement(KeywordChars("CREATE"), << Unit("CREATE", "", "123", 0) >>),
      Statement(KeywordChars("CREATE"), << Unit("CREATE", "", "order", 0) >>),
      Statement(KeywordChars("DROP"), << Unit("DROP", "", "t", 0) >>) }

\* the first parsed statement is the one the text begins with
WellFormed(stmt) == stmt.units[1].kw = EngineKeyword(stmt.sql)

Inputs == { stmt \in Statements : WellFormed(stmt) }

\* the statements that put a table of each lexical class into the catalog
CatalogInputs ==
    { Statement(KeywordChars("CREATE"), << Unit("CREATE", "", n, 0) >>) :
        n \in UserNames }

\* the statements offered when calls overlap
RaceInputs ==
    { stmt \in Inputs :
        \/ stmt.units = << Unit("SELECT", "count", "products", 0) >>
        \/ stmt = Statement(KeywordChars("CREATE"), << Unit("CREATE", "", "t", 0) >>)
        \/ stmt = Statement(KeywordChars("INSERT"), <<InsertOne>>) }

(***************************************************************************)
(* The session: module-level state of sqlEngine.ts and the calls in flight *)
(***************************************************************************)
VARIABLES
    SQL,      \* the sql.js runtime is loaded (let SQL, null = FALSE)
    db,       \* the Database object db refers to: 0 is null, else its
              \* identity
    store,    \* the contents of the Database object db refers to
    boots,    \* times the bootstrap created a database and loaded the seed
    calls,    \* per slot: the async call waiting at an await
    last,     \* the call that completed last, with its outcome
    initialized \* an initDatabase() call has returned since the page loaded

\* the connection graph component and its container element
VARIABLES
    schema,      \* the schema prop: the SchemaTable[] the page passes down
    connections, \* useMemo(() => getConnections(schema), [schema])
    positions,   \* the positions state: a Record from table name to Position
    size,        \* clientWidth and clientHeight the layout effect read last
    nodes,       \* the mounted DraggableNode of each drawn table: its refs
                 \* x and y, the initialPos it was mounted with and the
                 \* displacement reported to it since
    drags        \* drag events since the graph was mounted

session == <<SQL, db, store, boots, calls, last, initialized>>
graph == <<schema, connections, positions, size, nodes, drags>>
vars == <<SQL, db, store, boots, calls, last, initialized,
          schema, connections, positions, size, nodes, drags>>

\* what executeQuery returns (rowsAffected is optional: hasRowsAffected)
QueryResult(columns, values, hasRowsAffected, rowsAffected) ==
    [columns |-> columns, values |-> values,
     hasRowsAffected |-> hasRowsAffected, rowsAffected |-> rowsAffected]
NoResult == QueryResult(<<>>, <<>>, FALSE, 0)

\* events: what the call did, in the order of the code
Outcome(kind, message, path, result, reflected, bytes, logged, events) ==
    [kind |-> kind, message |-> message, path |-> path, result |-> result,
     schema |-> reflected, bytes |-> bytes, logged |-> logged,
     events |-> events]
NoOutcome == Outcome("none", "", "none", NoResult, <<>>, NullBytes, <<>>, <<>>)
Returned == [NoOutcome EXCEPT !.kind = "ok"]
Thrown(message) == [NoOutcome EXCEPT !.kind = "error", !.message = message]

Call(op, pc, stmt, data) == [op |-> op, pc |-> pc, stmt |-> stmt, data |-> data]
Idle == Call("none", "idle", NoStatement, NullBytes)

\* awaited: the call waited for the initDatabase() it made
Completed(op, stmt, data, awaited, out) ==
    [op |-> op, stmt |-> stmt, data |-> data, awaited |-> awaited,
     out |-> out]
Nothing == Completed("none", NoStatement, NullBytes, FALSE, NoOutcome)

MsgLoad == "failed to load sql.js"
MsgCreate == "failed to create the database"
MsgNull == "Cannot read properties of null"
MsgFallback == "Query execution failed"
MsgImport == "failed to open the database"

\* the graph before the component is mounted: useState({}) and no schema
NoSize == [clientWidth |-> 0, clientHeight |-> 0]
GraphNotMounted ==
    /\ schema = <<>>
    /\ connections = <<>>
    /\ positions = <<>>
    /\ size = NoSize
    /\ nodes = <<>>
    /\ drags = 0

Init ==
    /\ SQL = FALSE
    /\ db = 0
    /\ store = EmptyDatabase
    /\ boots = 0
    /\ calls = [p \in Callers |-> Idle]
    /\ last = Nothing
    /\ initialized = FALSE
    /\ GraphNotMounted

\* the identity of a newly constructed Database object: one that differs
\* from the identity of the object db refers to (the replaced object is
\* unreachable, so two identities are enough)
NewDatabase(old) == IF old = 1 THEN 2 ELSE 1

\* the slot an async call takes when it has to wait: the first idle one
FreeSlot(p) ==
    /\ calls[p].pc = "idle"
    /\ \A q \in Callers : q < p => calls[q].pc # "idle"

----------------------------------------------------------------------------
\* initDatabase, up to its first await: return when SQL is set, else start
\* loading the runtime.  op is the call that runs it: initDatabase itself, or
\* the executeQuery / importDatabase that awaits it.
EnterInit(p, op, stmt, data) ==
    [calls EXCEPT ![p] = Call(op, IF SQL THEN "resumed" ELSE "loading",
                              stmt, data)]

\* initDatabase without its first line, if (SQL) return
initDatabaseAlways(p) ==
    /\ UNCHANGED graph
    /\ FreeSlot(p)
    /\ calls' = [calls EXCEPT ![p] = Call("init", "loading", NoStatement,
                                          NullBytes)]
    /\ UNCHANGED <<SQL, db, store, boots, last, initialized>>

\* initDatabase()
initDatabase(p) ==
    /\ UNCHANGED graph
    /\ FreeSlot(p)
    /\ IF SQL
       THEN /\ last' = Completed("init", NoStatement, NullBytes, FALSE, Returned)
            /\ initialized' = TRUE
            /\ UNCHANGED calls
       ELSE /\ calls' = EnterInit(p, "init", NoStatement, NullBytes)
            /\ UNCHANGED <<last, initialized>>
    /\ UNCHANGED <<SQL, db, store, boots>>

\* initDatabase after the awaits of import('sql.js') and initSqlJs: SQL is
\* set, db = new SQL.Database(), loadSampleData() runs to its end
InitLoaded(p) ==
    /\ UNCHANGED graph
    /\ calls[p].pc = "loading"
    /\ SQL' = TRUE
    /\ db' = NewDatabase(db)
    /\ store' = loadSampleData(EmptyDatabase)
    /\ boots' = boots + 1
    /\ calls' = [calls EXCEPT ![p].pc = "seeding"]
    /\ UNCHANGED <<last, initialized>>

\* a load failure that leaves the runtime handle assigned
InitLoadFailsAssigned(p) ==
    /\ UNCHANGED graph
    /\ calls[p].pc = "loading"
    /\ SQL' = TRUE
    /\ calls' = [calls EXCEPT ![p] = Idle]
    /\ last' = Completed(calls[p].op, calls[p].stmt, calls[p].data,
                         calls[p].op # "init", Thrown(MsgLoad))
    /\ UNCHANGED <<db, store, boots, initialized>>

\* the runtime cannot be loaded: the catch block rethrows, the awaiting
\* executeQuery / importDatabase rejects with the same error
InitLoadFails(p) ==
    /\ UNCHANGED graph
    /\ calls[p].pc = "loading"
    /\ calls' = [calls EXCEPT ![p] = Idle]
    /\ last' = Completed(calls[p].op, calls[p].stmt, calls[p].data,
                         calls[p].op # "init", Thrown(MsgLoad))
    /\ UNCHANGED <<SQL, db, store, boots, initialized>>

\* the runtime loaded but new SQL.Database() throws: SQL is already assigned
InitCreateFails(p) ==
    /\ UNCHANGED graph
    /\ calls[p].pc = "loading"
    /\ SQL' = TRUE
    /\ calls' = [calls EXCEPT ![p] = Idle]
    /\ last' = Completed(calls[p].op, calls[p].stmt, calls[p].data,
                         calls[p].op # "init", Thrown(MsgCreate))
    /\ UNCHANGED <<db, store, boots, initialized>>

\* initDatabase after await loadSampleData(): it returns; a caller awaiting it
\* is resumed later
InitSeeded(p) ==
    /\ UNCHANGED graph
    /\ calls[p].pc = "seeding"
    /\ IF calls[p].op = "init"
       THEN /\ calls' = [calls EXCEPT ![p] = Idle]
            /\ last' = Completed("init", NoStatement, NullBytes, FALSE, Returned)
            /\ initialized' = TRUE
       ELSE /\ calls' = [calls EXCEPT ![p].pc = "resumed"]
            /\ UNCHANGED <<last, initialized>>
    /\ UNCHANGED <<SQL, db, store, boots>>

----------------------------------------------------------------------------
\* executeQuery's classification of the statement text
PathOf(stmt) == IF IsSelectPrefix(stmt.sql) THEN "projection" ELSE "mutation"

\* a catch block that throws a fixed message
RethrowFixed(message) == MsgFallback

\* the catch block: throw new Error(error.message || 'Query execution failed')
Rethrow(message) == IF message = "" THEN MsgFallback ELSE message

\* executeQuery reading the affected-row count before it runs the statement
ExecuteBodyCountFirst(handle, c, stmt) ==
    LET path == PathOf(stmt)
        r == RunScript(c, stmt.units)
    IN
    IF handle = 0
    THEN [c |-> c, out |-> [Thrown(Rethrow(MsgNull)) EXCEPT !.path = path]]
    ELSE IF ~r.ok
    THEN [c |-> r.c, out |-> [Thrown(Rethrow(r.msg)) EXCEPT !.path = path]]
    ELSE IF path = "projection"
    THEN [c |-> r.c,
          out |-> [Returned EXCEPT !.path = path,
                     !.result = IF Len(r.rs) = 0
                                THEN QueryResult(<<>>, <<>>, FALSE, 0)
                                ELSE QueryResult(r.rs[1].columns,
                                                 r.rs[1].values, FALSE, 0)]]
    ELSE [c |-> r.c,
          out |-> [Returned EXCEPT !.path = path,
                     !.result = QueryResult(<<"Status">>,
                                    << <<"Query executed successfully">> >>,
                                    TRUE, getRowsModified(c))]]

\* executeQuery from startTime on (lines 54-92), on Database object handle
\* with contents c: the contents afterwards and the outcome of the call
ExecuteBody(handle, c, stmt) ==
    LET path == PathOf(stmt)
        r == RunScript(c, stmt.units)
        \* line 54, line 57, line 60, then db.exec (61) or db.run (80)
        called == << "startTime", "trim", "classify",
                     IF path = "projection" THEN "exec" ELSE "run" >>
    IN
    IF handle = 0
    THEN \* db is null: db.exec / db.run throws a TypeError inside the try
         [c |-> c, out |-> [Thrown(Rethrow(MsgNull)) EXCEPT !.path = path,
                              !.events = called]]
    ELSE IF ~r.ok
    THEN [c |-> r.c, out |-> [Thrown(Rethrow(r.msg)) EXCEPT !.path = path,
                                !.events = called]]
    ELSE IF path = "projection"
    THEN [c |-> r.c,
          out |-> [Returned EXCEPT !.path = path,
                     !.events = called \o << "endTime" >>,
                     !.result = IF Len(r.rs) = 0
                                THEN QueryResult(<<>>, <<>>, FALSE, 0)
                                ELSE QueryResult(r.rs[1].columns,
                                                 r.rs[1].values, FALSE, 0)]]
    ELSE [c |-> r.c,
          out |-> [Returned EXCEPT !.path = path,
                     !.events = called \o << "endTime", "getRowsModified" >>,
                     !.result = QueryResult(<<"Status">>,
                                    << <<"Query executed successfully">> >>,
                                    TRUE, getRowsModified(r.c))]]

WithinRows(c) == \A n \in UserNames : c.tables[n].rows <= MaxRows

\* executeQuery(sql): lazy initDatabase when db is null, else the body at once
executeQuery(p, stmt) ==
    /\ UNCHANGED graph
    /\ FreeSlot(p)
    /\ IF db = 0
       THEN /\ calls' = EnterInit(p, "exec", stmt, NullBytes)
            /\ UNCHANGED <<store, last>>
       ELSE LET b == ExecuteBody(db, store, stmt)
            IN  /\ WithinRows(b.c)
                /\ store' = b.c
                /\ last' = Completed("exec", stmt, NullBytes, FALSE, b.out)
                /\ UNCHANGED calls
    /\ UNCHANGED <<SQL, db, boots, initialized>>

\* executeQuery resumed after await initDatabase()
ExecResumed(p) ==
    /\ UNCHANGED graph
    /\ calls[p].pc = "resumed"
    /\ calls[p].op = "exec"
    /\ LET b == ExecuteBody(db, store, calls[p].stmt)
       IN  /\ WithinRows(b.c)
           /\ store' = b.c
           /\ last' = Completed("exec", calls[p].stmt, NullBytes, TRUE,
                                 [b.out EXCEPT !.events = << "initDatabase" >> \o @])
    /\ calls' = [calls EXCEPT ![p] = Idle]
    /\ UNCHANGED <<SQL, db, boots, initialized>>

----------------------------------------------------------------------------
\* an import that loads the snapshot's tables into the current database
\* and keeps the tables the snapshot does not have
ImportBodyMerging(data, awaited, lazy) ==
    /\ db' = NewDatabase(db)
    /\ store' = [corrupt |-> FALSE,
                 tables |-> [n \in Names |->
                               IF data.tables[n].exists THEN data.tables[n]
                               ELSE store.tables[n]],
                 changes |-> 0]
    /\ last' = Completed("import", NoStatement, data, awaited, Returned)

\* importDatabase's last line, db = new SQL.Database(data).  On bytes that
\* are not a database file the constructor either throws, or (lazy is TRUE)
\* opens without reading the file and yields an object whose statements fail.
ImportBody(data, awaited, lazy) ==
    IF data.kind = "valid" \/ lazy
    THEN /\ db' = NewDatabase(db)
         /\ store' = Deserialize(data)
         /\ last' = Completed("import", NoStatement, data, awaited, Returned)
    ELSE /\ last' = Completed("import", NoStatement, data, awaited,
                              Thrown(MsgImport))
         /\ UNCHANGED <<db, store>>

\* the bytes a caller can pass: the snapshot it has just exported, or bytes
\* that are no database file
Snapshots ==
    {Malformed} \cup
    (IF last.op = "export" /\ last.out.bytes.kind = "valid"
     THEN {last.out.bytes} ELSE {})

\* importDatabase(data): initDatabase first when SQL is null
importDatabase(p, data) ==
    /\ UNCHANGED graph
    /\ FreeSlot(p)
    /\ IF ~SQL
       THEN /\ calls' = EnterInit(p, "import", NoStatement, data)
            /\ UNCHANGED <<db, store, last>>
       ELSE /\ \E lazy \in BOOLEAN : ImportBody(data, FALSE, lazy)
            /\ UNCHANGED calls
    /\ UNCHANGED <<SQL, boots, initialized>>

\* importDatabase resumed after await initDatabase()
ImportResumed(p) ==
    /\ UNCHANGED graph
    /\ calls[p].pc = "resumed"
    /\ calls[p].op = "import"
    /\ \E lazy \in BOOLEAN : ImportBody(calls[p].data, TRUE, lazy)
    /\ calls' = [calls EXCEPT ![p] = Idle]
    /\ UNCHANGED <<SQL, boots, initialized>>

----------------------------------------------------------------------------
\* getSchema() called on the session
GetSchema(p) ==
    /\ UNCHANGED graph
    /\ FreeSlot(p)
    /\ last' = Completed("schema", NoStatement, NullBytes, FALSE,
                         [Returned EXCEPT !.schema = getSchema(db, store)])
    /\ UNCHANGED <<SQL, db, store, boots, calls, initialized>>

\* an export that returns the bytes of an empty database when db is null
exportDatabaseEmpty(p) ==
    /\ UNCHANGED graph
    /\ FreeSlot(p)
    /\ IF db = 0
       THEN /\ last' = Completed("export", NoStatement, NullBytes, FALSE,
                          [Returned EXCEPT !.bytes = Serialize(EmptyDatabase)])
            /\ UNCHANGED store
       ELSE /\ last' = Completed("export", NoStatement, NullBytes, FALSE,
                                 [Returned EXCEPT !.bytes = Serialize(store)])
            /\ store' = [store EXCEPT !.changes = 0]
    /\ UNCHANGED <<SQL, db, boots, calls, initialized>>

\* exportDatabase(): null when db is null, else db.export(), which closes and
\* reopens the connection (its change counter restarts at 0)
exportDatabase(p) ==
    /\ UNCHANGED graph
    /\ FreeSlot(p)
    /\ IF db = 0
       THEN /\ last' = Completed("export", NoStatement, NullBytes, FALSE,
                                 Returned)
            /\ UNCHANGED store
       ELSE /\ last' = Completed("export", NoStatement, NullBytes, FALSE,
                                 [Returned EXCEPT !.bytes = Serialize(store)])
            /\ store' = [store EXCEPT !.changes = 0]
    /\ UNCHANGED <<SQL, db, boots, calls, initialized>>

\* clearDatabase(): nothing when db is null, else drop each reflected table
clearDatabase(p) ==
    /\ UNCHANGED graph
    /\ FreeSlot(p)
    /\ IF db = 0
       THEN /\ last' = Completed("clear", NoStatement, NullBytes, FALSE,
                                 Returned)
            /\ UNCHANGED store
       ELSE LET r == DropAll(store, getSchema(db, store), <<>>)
            IN  /\ store' = r.c
                /\ last' = Completed("clear", NoStatement, NullBytes, FALSE,
                                     [Returned EXCEPT !.logged = r.logged])
    /\ UNCHANGED <<SQL, db, boots, calls, initialized>>

\* the page is loaded again: the module starts over with db and SQL null and
\* no call in flight; what the user holds from the last call is still there
Reload ==
    /\ UNCHANGED graph
    /\ SQL' = FALSE
    /\ db' = 0
    /\ store' = EmptyDatabase
    /\ boots' = 0
    /\ calls' = [p \in Callers |-> Idle]
    /\ initialized' = FALSE
    /\ UNCHANGED last

\* one caller: a call is made when the one before it has completed
Serial == {1}

Next ==
    \/ \E p \in Serial : initDatabase(p)
    \/ \E p \in Serial : InitLoaded(p)
    \/ \E p \in Serial : InitLoadFails(p)
    \/ \E p \in Serial : InitCreateFails(p)
    \/ \E p \in Serial : InitSeeded(p)
    \/ \E p \in Serial, stmt \in Inputs : executeQuery(p, stmt)
    \/ \E p \in Serial : ExecResumed(p)
    \/ \E p \in Serial, data \in Snapshots : importDatabase(p, data)
    \/ \E p \in Serial : ImportResumed(p)
    \/ \E p \in Serial : GetSchema(p)
    \/ \E p \in Serial : exportDatabase(p)
    \/ \E p \in Serial : clearDatabase(p)
    \/ Reload

Spec == Init /\ [][Next]_vars

\* calls of several callers overlap at their awaits
NextRace ==
    \/ \E p \in Callers : initDatabase(p)
    \/ \E p \in Callers : InitLoaded(p)
    \/ \E p \in Callers : InitLoadFails(p)
    \/ \E p \in Callers : InitCreateFails(p)
    \/ \E p \in Callers : InitSeeded(p)
    \/ \E p \in Callers, stmt \in RaceInputs : executeQuery(p, stmt)
    \/ \E p \in Callers : ExecResumed(p)
    \/ \E p \in Callers, data \in Snapshots : importDatabase(p, data)
    \/ \E p \in Callers : ImportResumed(p)
    \/ \E p \in Callers : GetSchema(p)
    \/ \E p \in Callers : exportDatabase(p)
    \/ \E p \in Callers : clearDatabase(p)

SpecRace == Init /\ [][NextRace]_vars

\* one caller that creates tables, reflects and clears
NextCatalog ==
    \/ \E p \in Serial : initDatabase(p)
    \/ \E p \in Serial : InitLoaded(p)
    \/ \E p \in Serial : InitSeeded(p)
    \/ \E p \in Serial, stmt \in CatalogInputs : executeQuery(p, stmt)
    \/ \E p \in Serial : ExecResumed(p)
    \/ \E p \in Serial : GetSchema(p)
    \/ \E p \in Serial : clearDatabase(p)

SpecCatalog == Init /\ [][NextCatalog]_vars

(***************************************************************************)
(* The connection graph: getConnections and getInitialPositions            *)
(***************************************************************************)
\* String.prototype.endsWith
EndsWith(text, suffix) ==
    /\ Len(text) >= Len(suffix)
    /\ SubSeq(text, Len(text) - Len(suffix) + 1, Len(text)) = suffix

\* String.prototype.toUpperCase on a name
RECURSIVE UpperName(_)
UpperName(text) ==
    IF text = "" THEN ""
    ELSE UpperChar(SubSeq(text, 1, 1)) \o UpperName(SubSeq(text, 2, Len(text)))

\* c.name.replace(/_id$/i, ""): the name without a final _id, matched
\* without regard to case
ReplaceIdSuffix(name) ==
    IF Len(name) >= 3 /\ UpperName(SubSeq(name, Len(name) - 2, Len(name))) = "_ID"
    THEN SubSeq(name, 1, Len(name) - 3)
    ELSE name

\* tableMap.has(n)
TableMapHas(tables, n) == \E i \in 1..Len(tables) : tables[i].name = n

\* [targetName, `${targetName}s`, `${targetName}es`]
Possible(column) ==
    LET targetName == ReplaceIdSuffix(column)
    IN  << targetName, targetName \o "s", targetName \o "es" >>

Connection(from, to) == [from |-> from, to |-> to]

\* the body of t.columns.forEach for one column: the connection it pushes
ColumnConnections(tables, from, column) ==
    LET found == SelectSeq(Possible(column),
                           LAMBDA n : TableMapHas(tables, n))
    IN  IF EndsWith(column, "_id") /\ found # <<>> /\ found[1] # ""
        THEN << Connection(from, found[1]) >>
        ELSE <<>>

\* the connections one table contributes, in column order
RECURSIVE TableConnections(_, _, _)
TableConnections(tables, from, columns) ==
    IF columns = <<>> THEN <<>>
    ELSE ColumnConnections(tables, from, Head(columns).name)
           \o TableConnections(tables, from, Tail(columns))

\* a getConnections that pushes a connection only when it is not there yet
getConnectionsDeduplicated(tables) ==
    LET RECURSIVE walk(_), unique(_, _)
        walk(i) ==
            IF i > Len(tables) THEN <<>>
            ELSE TableConnections(tables, tables[i].name, tables[i].columns)
                   \o walk(i + 1)
        unique(q, acc) ==
            IF q = <<>> THEN acc
            ELSE unique(Tail(q),
                        IF \E k \in 1..Len(acc) : acc[k] = Head(q)
                        THEN acc ELSE Append(acc, Head(q)))
    IN  unique(walk(1), <<>>)

\* getConnections(schema)
getConnections(tables) ==
    LET RECURSIVE walk(_)
        walk(i) ==
            IF i > Len(tables) THEN <<>>
            ELSE TableConnections(tables, tables[i].name, tables[i].columns)
                   \o walk(i + 1)
    IN  walk(1)

Position(x, y) == [x |-> x, y |-> y]

\* Math.ceil(Math.sqrt(n))
CeilSqrt(n) == CHOOSE k \in 0..n : k * k >= n /\ (k = 0 \/ (k - 1) * (k - 1) < n)

\* Math.ceil(n / d)
CeilDiv(n, d) == (n + d - 1) \div d

\* getInitialPositions(schema, width, height).  The sizes of the model divide
\* by the column and row counts, so the divisions are exact.
getInitialPositions(tables, width, height) ==
    IF Len(tables) = 0 THEN <<>>
    ELSE
    LET cols == CeilSqrt(Len(tables))
        rows == CeilDiv(Len(tables), cols)
        cellWidth == width \div cols
        cellHeight == height \div rows
        \* positions[table.name] = ...: the last table of a name stays
        index(name) == (CHOOSE i \in 1..Len(tables) :
                          /\ tables[i].name = name
                          /\ \A j \in (i + 1)..Len(tables) :
                                tables[j].name # name) - 1
    IN  [name \in { tables[i].name : i \in 1..Len(tables) } |->
           LET col == index(name) % cols
               row == index(name) \div cols
           IN  Position(col * cellWidth + cellWidth \div 2 - 100,
                        row * cellHeight + cellHeight \div 2 - 100)]

\* the schemas handed to the graph: tables of the pool, each with one of the
\* column lists
TablePool == {"users", "box", "boxes", "USER"}

Key(name) == Col(name, "INTEGER", FALSE, name = "id")

ColumnLists ==
    { << Key("id") >>,
      << Key("id"), Key("user_id") >>,
      << Key("id"), Key("user_id"), Key("users_id") >>,
      << Key("id"), Key("box_id"), Key("foo_id") >>,
      << Key("id"), Key("USER_ID") >> }

InferSchemas ==
    UNION { { [i \in 1..n |-> SchemaTable(names[i], columns[i])] :
                names \in { q \in [1..n -> TablePool] :
                              \A i, j \in 1..n : q[i] = q[j] => i = j },
                columns \in [1..n -> ColumnLists] } :
            n \in 1..MaxTables }

\* what getSchema returns for the seeded database
SeedSchema == getSchema(1, loadSampleData(EmptyDatabase))

LayoutNames == << "categories", "order_items", "orders", "products", "users",
                 "a", "b", "c", "d", "e", "f", "g" >>

\* the first n tables of LayoutNames
LayoutSchemas ==
    { [i \in 1..n |-> SchemaTable(LayoutNames[i], << Key("id") >>)] :
        n \in 1..MaxNodes }

MountSchemas == InferSchemas \cup LayoutSchemas \cup {SeedSchema}

\* clientWidth and clientHeight of the container when the effect runs; 0 when
\* the element has no box yet
ContainerSizes ==
    { [clientWidth |-> w, clientHeight |-> h] : w \in {0, 1200}, h \in {0, 600} }

\* useRef(initialPos.x), useRef(initialPos.y) of a DraggableNode that is
\* mounted at initialPos
Node(initialPos) ==
    [x |-> initialPos.x, y |-> initialPos.y,
     mountedAt |-> initialPos, moved |-> Position(0, 0)]

\* schema.map in the render: a DraggableNode (key = table.name) for every
\* table that has a position; a node that is already mounted stays
Render(tables, placed, mounted) ==
    [name \in { tables[i].name : i \in 1..Len(tables) } \cap DOMAIN placed |->
       IF name \in DOMAIN mounted THEN mounted[name] ELSE Node(placed[name])]

\* DraggableTableConnectionGraph is mounted with a schema: the first render
\* computes the connections, then the effect lays the tables out when the
\* position map is empty and the schema is not
Mount(tables, container) ==
    /\ schema = <<>> /\ DOMAIN positions = {}
    /\ schema' = tables
    /\ connections' = getConnections(tables)
    /\ IF Len(tables) > 0
       THEN /\ positions' = getInitialPositions(tables, container.clientWidth,
                                                container.clientHeight)
            /\ size' = container
       ELSE UNCHANGED <<positions, size>>
    /\ nodes' = Render(tables, positions', nodes)
    /\ UNCHANGED <<drags, session>>

NextMount ==
    \E tables \in MountSchemas, container \in ContainerSizes :
        Mount(tables, container)

SpecMount == Init /\ [][NextMount]_vars

\* the schemas the page hands down over the life of one graph: every
\* selection of three tables in the order getSchema lists them, [] included
GraphTables ==
    << SchemaTable("orders", << Key("id"), Key("user_id") >>),
       SchemaTable("t", << Key("id") >>),
       SchemaTable("users", << Key("id") >> ) >>

GraphSchemas ==
    { SelectSeq(GraphTables, LAMBDA table : table.name \in chosen) :
        chosen \in SUBSET { GraphTables[i].name : i \in 1..Len(GraphTables) } }

\* clientWidth and clientHeight of the container of a graph that is shown
GraphSizes ==
    { [clientWidth |-> w, clientHeight |-> 600] : w \in {800, 1200} }

\* info.delta of a drag event
Deltas == { Position(40, 0), Position(0 - 15, 25) }

\* the effect on [schema]: getInitialPositions when the position map is empty
\* and the schema is not, else the map stays as it is
InitializePositionsAlways(placed, tables, container) ==
    IF Len(tables) > 0
    THEN getInitialPositions(tables, container.clientWidth,
                             container.clientHeight)
    ELSE placed

InitializePositions(placed, tables, container) ==
    IF DOMAIN placed = {} /\ Len(tables) > 0
    THEN getInitialPositions(tables, container.clientWidth,
                             container.clientHeight)
    ELSE placed

\* the page calls setSchema while the graph is mounted: the graph renders
\* again with the new schema prop, recomputes the connections, runs the
\* effect on [schema], and mounts or unmounts the nodes the render asks for
Refresh(tables, container) ==
    /\ schema # <<>> \/ DOMAIN positions # {}
    /\ schema' = tables
    /\ connections' = getConnections(tables)
    /\ positions' = InitializePositions(positions, tables, container)
    /\ size' = IF DOMAIN positions = {} /\ Len(tables) > 0
               THEN container ELSE size
    /\ nodes' = Render(tables, positions', nodes)
    /\ UNCHANGED <<drags, session>>

\* handlePositionChange: setPositions(prev => ({...prev, [name]: {x, y}}))
handlePositionChangeReplacing(prev, name, x, y) ==
    [n \in {name} |-> Position(x, y)]

handlePositionChange(prev, name, x, y) ==
    [n \in DOMAIN prev \cup {name} |->
       IF n = name THEN Position(x, y) ELSE prev[n]]

\* onDrag of the node of table name: the refs accumulate info.delta and the
\* result is committed to the position map, then the graph renders again
Drag(name, delta) ==
    /\ drags < MaxDrags
    /\ name \in DOMAIN nodes
    /\ LET x == nodes[name].x + delta.x
           y == nodes[name].y + delta.y
           dragged == [nodes EXCEPT ![name] =
                          [@ EXCEPT !.x = x, !.y = y,
                                    !.moved = Position(@.x + delta.x,
                                                       @.y + delta.y)]]
       IN  /\ positions' = handlePositionChange(positions, name, x, y)
           /\ nodes' = Render(schema, positions', dragged)
    /\ drags' = drags + 1
    /\ UNCHANGED <<schema, connections, size, session>>

\* Hide Connections: the page stops rendering the graph, its state is gone
Unmount ==
    /\ schema # <<>> \/ DOMAIN positions # {}
    /\ schema' = <<>>
    /\ connections' = <<>>
    /\ positions' = <<>>
    /\ size' = NoSize
    /\ nodes' = <<>>
    /\ drags' = 0
    /\ UNCHANGED session

NextGraph ==
    \/ \E tables \in GraphSchemas \ {<<>>}, container \in GraphSizes :
          Mount(tables, container)
    \/ \E tables \in GraphSchemas, container \in GraphSizes :
          Refresh(tables, container)
    \/ \E name \in DOMAIN nodes, delta \in Deltas : Drag(name, delta)
    \/ Unmount

SpecGraph == Init /\ [][NextGraph]_vars

(***************************************************************************)
(* Properties                                                              *)
(***************************************************************************)
\* this step is executeQuery running its body (lines 54-92) on the statement
\* recorded in last': at the call when db is set, else when the call is
\* resumed after initDatabase
ExecutesBody ==
    /\ last'.op = "exec"
    /\ \/ db # 0 /\ \E p \in Callers : executeQuery(p, last'.stmt)
       \/ \E p \in Callers : calls[p].stmt = last'.stmt /\ ExecResumed(p)

\* this step is importDatabase constructing the Database from the bytes
\* recorded in last'
ImportsBody ==
    /\ last'.op = "import"
    /\ \/ SQL /\ \E p \in Callers : importDatabase(p, last'.data)
       \/ \E p \in Callers : calls[p].data = last'.data /\ ImportResumed(p)

OneColumnOneRow(result) ==
    /\ Len(result.columns) = 1
    /\ Len(result.values) = 1
    /\ Len(result.values[1]) = 1

\* C1: an initDatabase() call made after an earlier initDatabase() call has
\* returned is a no-op: it returns at once, it creates no database, runs no
\* seed and leaves SQL, db and the contents of the database as they are.
C1_InitializeAgainIsNoOp ==
    [][\A p \in Callers :
         (initialized /\ initDatabase(p)) =>
            /\ UNCHANGED <<SQL, db, store, boots, calls>>
            /\ last'.op = "init" /\ last'.out.kind = "ok"]_vars

\* C1 witness: initDatabase() has returned again on a session whose database
\* was changed by a statement after the first bootstrap
C1_Witness ==
    /\ initialized /\ boots = 1
    /\ last.op = "init" /\ last.out.kind = "ok"
    /\ store.tables["t"].exists /\ store.tables["t"].rows = 3

\* C2: whatever the interleaving of initDatabase, executeQuery and
\* importDatabase calls, the bootstrap creates the database and loads the
\* seed at most once.
C2_BootstrapAtMostOnce == boots <= 1

\* the leading word of the trimmed text is SELECT, compared without case
LeadingKeywordIsSelect(text) ==
    ToUpperCase(LeadingWord(Trim(text))) = SELECT

ResultShapes ==
    /\ (last.out.kind = "ok" /\ last.out.path = "mutation") =>
          /\ OneColumnOneRow(last.out.result)
          /\ last.out.result.hasRowsAffected
    /\ (last.out.kind = "ok" /\ last.out.path = "projection") =>
          ~last.out.result.hasRowsAffected

C4_EngineErrorIsRaised ==
    [][(ExecutesBody /\ db # 0 /\ ~RunScript(store, last'.stmt.units).ok) =>
          /\ last'.out.kind = "error"
          /\ last'.out.message = RunScript(store, last'.stmt.units).msg
          /\ last'.out.result = NoResult]_vars

\* C4 witness: a statement on a missing table ended in an error that carries
\* the engine's message
C4_Witness ==
    /\ last.op = "exec" /\ last.out.kind = "error"
    /\ last.out.message = MsgNoTable
    /\ last.out.path = "mutation"

\* C5: when executeQuery fails, for any statement text, the session keeps
\* its database handle and the tables and rows are what they were before
\* the call.
C5_FailedExecuteChangesNothing ==
    [][(ExecutesBody /\ db # 0 /\ last'.out.kind = "error") =>
          /\ SQL' = SQL /\ db' = db
          /\ store'.tables = store.tables]_vars

\* rows that a single INSERT, UPDATE or DELETE statement u touched, from the
\* database before and after it
RowsTouched(before, after, u) ==
    CASE u.kw = "INSERT" ->
           after.tables[u.tbl].rows - before.tables[u.tbl].rows
      [] u.kw = "DELETE" ->
           before.tables[u.tbl].rows - after.tables[u.tbl].rows
      [] u.kw = "UPDATE" -> before.tables[u.tbl].rows

\* C6: for a successful INSERT, UPDATE or DELETE statement, rowsAffected is
\* the number of rows the statement inserted, changed or deleted.
C6_RowsAffectedCountsRows ==
    [][( /\ ExecutesBody /\ db # 0
         /\ Len(last'.stmt.units) = 1
         /\ last'.stmt.units[1].kw \in {"INSERT", "UPDATE", "DELETE"}
         /\ last'.out.kind = "ok" ) =>
          /\ last'.out.result.hasRowsAffected
          /\ last'.out.result.rowsAffected
               = RowsTouched(store, store', last'.stmt.units[1])]_vars

\* C6 witness: a 3-row INSERT into the empty table t returned rowsAffected 3
C6_Witness ==
    /\ last.op = "exec" /\ last.out.kind = "ok"
    /\ last.stmt.units = << Unit("INSERT", "", "t", 3) >>
    /\ store.tables["t"].rows = 3
    /\ last.out.result.rowsAffected = 3

\* C7: a projection that matches no row returns the column names of its
\* result set and zero rows (not the empty columns of "no result set").
C7_EmptyMatchKeepsColumns ==
    ( /\ last.op = "exec" /\ last.out.kind = "ok"
      /\ last.out.path = "projection"
      /\ last.stmt.units = << Unit("SELECT", "where0", "t", 0) >> ) =>
        /\ last.out.result.columns = ColumnNames("t")
        /\ last.out.result.values = <<>>

\* the statements that take the projection path
Projections == { stmt \in Inputs : PathOf(stmt) = "projection" }

\* two databases show the same schema and the same projection results
SameView(c1, c2) ==
    /\ getSchema(1, c1) = getSchema(1, c2)
    /\ \A q \in Projections :
          ExecuteBody(1, c1, q).out = ExecuteBody(1, c2, q).out

C9_FailedImportChangesNothing ==
    [][(ImportsBody /\ last'.out.kind = "error") =>
          IF SQL /\ \E p \in Callers : importDatabase(p, last'.data)
          THEN UNCHANGED <<SQL, db, store>>
          ELSE ~SQL' /\ db' = 0 /\ store' = EmptyDatabase]_vars

\* C10: after clearDatabase on a session with a database, db is the same
\* and the catalog holds no user table, so getSchema returns no table.
C10_ClearLeavesNoTable ==
    [][(last'.op = "clear" /\ db # 0 /\ \E p \in Callers : clearDatabase(p)) =>
          /\ db' = db
          /\ \A n \in Names \ InternalNames : ~store'.tables[n].exists
          /\ getSchema(db', store') = <<>>]_vars

\* this step is clearDatabase on a session that has a database
ClearsDatabase ==
    last'.op = "clear" /\ db # 0 /\ \E p \in Callers : clearDatabase(p)

\* this step is getSchema on a session that has a database
ReflectsDatabase ==
    last'.op = "schema" /\ db # 0 /\ \E p \in Callers : GetSchema(p)

\* C11: clearDatabase issues a drop for every table getSchema enumerated;
\* a drop that fails is logged, nothing is raised, and every other
\* enumerated table is dropped all the same.  Tables that were not
\* enumerated are left as they are.
C11_ClearDropsEveryEnumerated ==
    [][ClearsDatabase =>
          LET tables == getSchema(db, store)
              enumerated == { tables[i].name : i \in 1..Len(tables) }
              logged == { last'.out.logged[i] : i \in 1..Len(last'.out.logged) }
          IN  /\ last'.out.kind = "ok"
              /\ logged = { n \in enumerated : ~DropParses(n) }
              /\ \A n \in enumerated \ logged : ~store'.tables[n].exists
              /\ \A n \in Names \ (enumerated \ logged) :
                    store'.tables[n] = store.tables[n]]_vars

\* C11 witness: the drop of table 123, the first enumerated, failed and was
\* logged; the seed tables and t, enumerated after it, were dropped
C11_Witness ==
    /\ last.op = "clear" /\ last.out.kind = "ok"
    /\ last.out.logged = <<"123">>
    /\ store.tables["123"].exists
    /\ boots = 1 /\ \A n \in SeedNames : ~store.tables[n].exists
    /\ ~store.tables["t"].exists /\ store.tables["sqlitex"].exists

\* the user tables of the catalog, in name order
UserTablesOf(c) ==
    SelectSeq(CatalogOf(c), LAMBDA name : name \notin InternalNames)

\* a query getSchema issues on database c throws
ReflectionFails(c) ==
    c.corrupt \/ \E n \in Names \ InternalNames :
                    c.tables[n].exists /\ ~PragmaParses(n)

\* C12: on a session with a database where no catalog query fails,
\* getSchema returns exactly one SchemaTable per user table of the catalog
\* and none for an engine-internal table, in name order, each with the
\* table's columns in declaration order.
C12_ReflectsEveryUserTable ==
    [][(ReflectsDatabase /\ ~ReflectionFails(store)) =>
          LET tables == last'.out.schema
              names == UserTablesOf(store)
          IN  /\ Len(tables) = Len(names)
              /\ \A i \in 1..Len(names) :
                    /\ tables[i].name = names[i]
                    /\ tables[i].columns = DeclaredColumns(names[i])]_vars

\* C13: when a query of getSchema fails it raises nothing and returns the
\* empty sequence, and getSchema never returns a non-empty sequence that
\* omits a user table.
C13_EmptyNeverPartial ==
    [][ReflectsDatabase =>
          LET tables == last'.out.schema
              reflected == { tables[i].name : i \in 1..Len(tables) }
          IN  /\ last'.out.kind = "ok"
              /\ ReflectionFails(store) => tables = <<>>
              /\ tables # <<>> =>
                    \A n \in Names \ InternalNames :
                       store.tables[n].exists => n \in reflected]_vars

\* C14: when the runtime cannot be loaded, the call that was loading it
\* raises the load error and the session stays uninitialized: SQL and db are
\* null afterwards, and nothing was created or seeded.
C14_LoadFailureStaysUninitialized ==
    [][\A p \in Callers :
         InitLoadFails(p) =>
            /\ last'.op = calls[p].op
            /\ last'.out.kind = "error" /\ last'.out.message = MsgLoad
            /\ ~SQL' /\ db' = 0 /\ boots' = 0
            /\ store' = EmptyDatabase /\ ~initialized']_vars

\* C14 witness: initDatabase() has thrown the load error and SQL and db are
\* null
C14_Witness ==
    /\ last.op = "init" /\ last.out.kind = "error"
    /\ last.out.message = MsgLoad
    /\ ~SQL /\ db = 0 /\ calls[1] = Idle

\* C15: on an uninitialized session getSchema returns the empty sequence,
\* exportDatabase returns null and clearDatabase does nothing; none of them
\* throws or starts the bootstrap, and SQL and db stay null.
C15_UninitializedReadsAreInert ==
    [][( /\ ~SQL /\ db = 0
         /\ \E p \in Callers :
               GetSchema(p) \/ exportDatabase(p) \/ clearDatabase(p) ) =>
          /\ last'.op \in {"schema", "export", "clear"}
          /\ last'.out.kind = "ok"
          /\ last'.out.schema = <<>>
          /\ last'.out.bytes = NullBytes
          /\ last'.out.logged = <<>>
          /\ UNCHANGED <<SQL, db, store, boots, calls, initialized>>]_vars

\* C15 witness: exportDatabase has returned null on a session whose SQL and
\* db are null and on which no call is waiting
C15_Witness ==
    /\ last.op = "export" /\ last.out.kind = "ok"
    /\ last.out.bytes = NullBytes
    /\ ~SQL /\ db = 0 /\ boots = 0 /\ calls[1] = Idle

CountProducts == Statement(SELECT, << Unit("SELECT", "count", "products", 0) >>)

\* C16: when initDatabase() returns after the bootstrap of a fresh session,
\* the user tables are users, categories, products, orders and order_items
\* with 5, 5, 10, 5 and 10 rows and no other, and SELECT COUNT(*) FROM
\* products returns one column and one row whose value is 10.
C16_FreshSessionHoldsSeed ==
    [][\A p \in Callers :
         (calls[p].op = "init" /\ InitSeeded(p)) =>
            /\ last'.op = "init" /\ last'.out.kind = "ok"
            /\ store'.tables["users"] = [exists |-> TRUE, rows |-> 5]
            /\ store'.tables["categories"] = [exists |-> TRUE, rows |-> 5]
            /\ store'.tables["products"] = [exists |-> TRUE, rows |-> 10]
            /\ store'.tables["orders"] = [exists |-> TRUE, rows |-> 5]
            /\ store'.tables["order_items"] = [exists |-> TRUE, rows |-> 10]
            /\ \A n \in UserNames : ~store'.tables[n].exists
            /\ LET b == ExecuteBody(db', store', CountProducts)
               IN  /\ b.out.kind = "ok"
                   /\ OneColumnOneRow(b.out.result)
                   /\ b.out.result.values[1][1] = 10]_vars

\* C16 witness: initDatabase() has returned from the bootstrap and the
\* database is the seed, with 10 products
C16_Witness ==
    /\ last.op = "init" /\ last.out.kind = "ok"
    /\ initialized /\ boots = 1 /\ db # 0
    /\ store.tables["products"].rows = 10
    /\ store.tables["order_items"].rows = 10
    /\ \A n \in UserNames : ~store.tables[n].exists

\* the name ends with _id, compared without regard to case
EndsWithIdAnyCase(name) ==
    Len(name) >= 3 /\ UpperName(SubSeq(name, Len(name) - 2, Len(name))) = "_ID"

\* the first of root, root+s, root+es that names a table of the schema, as
\* a sequence of one name, or of none when no candidate names a table
FirstCandidate(tables, root) ==
    LET names == { tables[i].name : i \in 1..Len(tables) }
    IN  IF root \in names THEN << root >>
        ELSE IF (root \o "s") \in names THEN << root \o "s" >>
        ELSE IF (root \o "es") \in names THEN << root \o "es" >>
        ELSE <<>>

\* C17: every column whose name ends with _id, compared without regard to
\* case, is stripped of the suffix; the first of root, root+s, root+es that
\* is a table name is the target of a connection from the owning table, and
\* a column with no match gives no connection: the connections are exactly
\* the ones these columns call for.
C17_ConnectionPerIdColumn ==
    LET target(column) ==
            FirstCandidate(schema, SubSeq(column, 1, Len(column) - 3))
        idColumns(t) ==
            { c \in { t.columns[j].name : j \in 1..Len(t.columns) } :
                EndsWithIdAnyCase(c) /\ target(c) # <<>> }
        calledFor ==
            UNION { { Connection(schema[i].name, target(c)[1]) :
                        c \in idColumns(schema[i]) } :
                    i \in 1..Len(schema) }
    IN  { connections[k] : k \in 1..Len(connections) } = calledFor

\* the column resolves to table to: it ends with _id and to is the first of
\* its candidates that is a table of the schema
ResolvesTo(tables, column, to) ==
    /\ EndsWith(column, "_id")
    /\ \E n \in 1..3 :
          /\ Possible(column)[n] = to
          /\ TableMapHas(tables, to)
          /\ \A m \in 1..(n - 1) : ~TableMapHas(tables, Possible(column)[m])

\* C18: getConnections gives one connection per column that resolves to a
\* table, and does not deduplicate: between two tables there are as many
\* connections as columns of the first resolve to the second (two or more,
\* and from a table to itself, included), and both ends of every
\* connection are tables of the schema.
C18_OneConnectionPerColumn ==
    LET names == { schema[i].name : i \in 1..Len(schema) }
        table(from) == schema[CHOOSE i \in 1..Len(schema) : schema[i].name = from]
        count(from, to) ==
            Cardinality({ j \in 1..Len(table(from).columns) :
                            ResolvesTo(schema, table(from).columns[j].name, to) })
    IN  /\ \A k \in 1..Len(connections) :
              connections[k].from \in names /\ connections[k].to \in names
        /\ \A from \in names, to \in names :
              Cardinality({ k \in 1..Len(connections) :
                              connections[k] = Connection(from, to) })
                = count(from, to)

\* C18 witness: two columns of users (user_id and users_id) resolve to users
\* itself: the graph holds the connection users -> users twice
C18_Witness ==
    /\ Len(connections) >= 2
    /\ connections[1] = Connection("users", "users")
    /\ connections[2] = Connection("users", "users")

\* C19: for the seed schema the connections contain one for each of the four
\* declared foreign keys: products -> categories, orders -> users,
\* order_items -> orders and order_items -> products.
C19_SeedForeignKeysConnected ==
    schema = SeedSchema =>
        \A e \in { Connection("products", "categories"),
                    Connection("orders", "users"),
                    Connection("order_items", "orders"),
                    Connection("order_items", "products") } :
            \E k \in 1..Len(connections) : connections[k] = e

\* C20: the initial layout of N >= 1 tables uses columns = ceil(sqrt(N)) and
\* rows = ceil(N / columns), puts table i (from 0) into cell
\* (i mod columns, floor(i / columns)) with its row below rows, and gives N
\* pairwise distinct positions, one per table.
C20_GridOfDistinctPositions ==
    Len(schema) >= 1 =>
        LET N == Len(schema)
            columns == CHOOSE k \in 1..N : k * k >= N /\ (k - 1) * (k - 1) < N
            rows == CHOOSE r \in 1..N : r * columns >= N /\ (r - 1) * columns < N
            cellWidth == size.clientWidth \div columns
            cellHeight == size.clientHeight \div rows
            cell(i) == << (i - 1) % columns, (i - 1) \div columns >>
        IN  /\ DOMAIN positions = { schema[i].name : i \in 1..N }
            /\ Cardinality(DOMAIN positions) = N
            /\ \A i \in 1..N :
                  /\ cell(i)[2] < rows
                  /\ positions[schema[i].name] =
                        Position(cell(i)[1] * cellWidth + cellWidth \div 2 - 100,
                                 cell(i)[2] * cellHeight + cellHeight \div 2 - 100)
            /\ \A i, j \in 1..N :
                  i # j => positions[schema[i].name] # positions[schema[j].name]

\* C24: executeQuery on a session that is not ready first brings it to
\* ready with the seed loaded and only then runs the statement; the
\* statement is never run while db is null, and executeQuery on a ready
\* session neither creates a database nor loads the seed.
C24_ExecuteRunsOnReadySession ==
    [][ExecutesBody =>
          /\ db # 0
          /\ last'.awaited => SQL /\ store = loadSampleData(EmptyDatabase)
          /\ db' = db /\ boots' = boots /\ SQL' = SQL]_vars

\* the place of an event in the order of events of a call (0: not there)
PlaceOf(events, event) ==
    IF \E i \in 1..Len(events) : events[i] = event
    THEN CHOOSE i \in 1..Len(events) : events[i] = event
    ELSE 0

\* C25: in executeQuery the timer is started after a lazy initDatabase has
\* completed and after the statement was trimmed and classified, and it is
\* stopped immediately after the engine call returns and before the
\* affected-row count is read.
C25_TimerAroundEngineCallOnly ==
    (last.op = "exec" /\ last.out.kind = "ok") =>
        LET events == last.out.events
            at(event) == PlaceOf(events, event)
            engine == IF last.out.path = "projection" THEN "exec" ELSE "run"
        IN  /\ last.awaited => 0 < at("initDatabase")
                                /\ at("initDatabase") < at("startTime")
            /\ 0 < at("trim") /\ at("trim") < at("startTime")
            /\ 0 < at("classify") /\ at("classify") < at("startTime")
            /\ at("startTime") < at(engine)
            /\ at("endTime") = at(engine) + 1
            /\ last.out.path = "mutation" =>
                  at("endTime") < at("getRowsModified")

\* C26: once an executeQuery or importDatabase call has completed
\* successfully, an initDatabase that is still in flight does not replace
\* the database: db and its contents stay as the completed call left them.
C26_InitInFlightKeepsDatabase ==
    [][\A p \in Callers :
         ( /\ last.op \in {"exec", "import"} /\ last.out.kind = "ok"
           /\ db # 0 /\ ~store.corrupt
           /\ InitLoaded(p) ) =>
            db' = db /\ store'.tables = store.tables]_vars

\* C27: whenever no call is in progress, a loaded runtime (SQL) implies a
\* database (db), so that the guard of initDatabase returns early only on
\* a ready session and a failed initDatabase can be tried again.
C27_RuntimeImpliesDatabase ==
    (SQL /\ \A p \in Callers : calls[p].pc = "idle") => db # 0

\* C28: the rowsAffected of a definition statement (CREATE TABLE, DROP
\* TABLE) depends on the statement alone: it is what the statement reports
\* on the same tables when no statement ran before it.
C28_RowsAffectedOfStatementAlone ==
    [][( /\ ExecutesBody /\ db # 0
         /\ Len(last'.stmt.units) = 1
         /\ last'.stmt.units[1].kw \in {"CREATE", "DROP"}
         /\ last'.out.kind = "ok" ) =>
          last'.out.result.rowsAffected =
             ExecuteBody(db, [store EXCEPT !.changes = 0],
                         last'.stmt).out.result.rowsAffected]_vars

\* C29: a statement text that executeQuery classifies as projection leaves
\* the tables and rows of the database as they were, also when the text
\* holds several statements.
C29_ProjectionChangesNothing ==
    [][(ExecutesBody /\ db # 0 /\ last'.out.path = "projection") =>
          store'.tables = store.tables]_vars

\* the names of the tables of the schema the graph holds
SchemaNames == { schema[i].name : i \in 1..Len(schema) }

\* C21: in every reachable state of the graph every key of the position map
\* is the name of a table of the current schema, also after a refresh that
\* removed tables.
C21_PositionKeysAreCurrentTables ==
    DOMAIN positions \subseteq SchemaNames

\* this step hands a schema to the graph: at mount or by a refresh
SchemaArrives ==
    \E container \in GraphSizes :
        Mount(schema', container) \/ Refresh(schema', container)

\* C22: when a schema arrives the layout is computed only if the position
\* map is empty and the schema is not; otherwise the position map is left
\* exactly as it was, so placed and dragged nodes keep their positions.
C22_LayoutOnlyOnEmptyMap ==
    [][SchemaArrives =>
         IF DOMAIN positions = {} /\ Len(schema') > 0
         THEN \E container \in GraphSizes :
                 positions' = getInitialPositions(schema',
                                  container.clientWidth, container.clientHeight)
         ELSE positions' = positions]_vars

\* a refresh arrived while the map was not empty: an entry of a table that
\* left the schema is still there, a table that entered has none, and a
\* node that was dragged is mounted
C22_Witness ==
    /\ \E n \in DOMAIN positions : n \notin SchemaNames
    /\ \E n \in SchemaNames : n \notin DOMAIN positions
    /\ \E n \in DOMAIN nodes : nodes[n].moved # Position(0, 0)

\* C23: the committed position of every mounted node is its position at
\* mount plus the sum of the displacements reported for it; each drag event
\* commits the displaced position at once and leaves every other entry of
\* the position map as it was.
C23_DragAccumulatesPerNode ==
    [][ /\ \A n \in DOMAIN nodes' :
             /\ n \in DOMAIN positions'
             /\ positions'[n] =
                   Position(nodes'[n].mountedAt.x + nodes'[n].moved.x,
                            nodes'[n].mountedAt.y + nodes'[n].moved.y)
        /\ \A name \in DOMAIN nodes, delta \in Deltas :
             Drag(name, delta) =>
                /\ name \in DOMAIN positions'
                /\ positions'[name] = Position(positions[name].x + delta.x,
                                               positions[name].y + delta.y)
                /\ \A other \in DOMAIN positions \ {name} :
                      /\ other \in DOMAIN positions'
                      /\ positions'[other] = positions[other] ]_vars

\* a node was dragged twice, by two different displacements, next to a node
\* that was not dragged
C23_Witness ==
    /\ drags = 2
    /\ \E n \in DOMAIN nodes :
          /\ nodes[n].moved = Position(25, 25)
          /\ positions[n] = Position(nodes[n].mountedAt.x + 25,
                                     nodes[n].mountedAt.y + 25)
    /\ \E n \in DOMAIN nodes :
          nodes[n].moved = Position(0, 0) /\ positions[n] = nodes[n].mountedAt

\* C30: while the position map is not empty every table of the current
\* schema has an entry in it and a mounted node, also a table that entered
\* the schema after the layout was computed.
C30_EveryCurrentTableIsDrawn ==
    DOMAIN positions # {} =>
        /\ SchemaNames \subseteq DOMAIN positions
        /\ SchemaNames \subseteq DOMAIN nodes

====
